---- MODULE Spec2Model ----
(***************************************************************************)
(* A model of rebuild_avb.py: one run of main(), from argument checking    *)
(* to the exit status.  Every invocation of the external avbtool           *)
(* (info_image, erase_footer, add_hash_footer, make_vbmeta_image) is one   *)
(* step; the tool's result is a nondeterministic choice.                   *)
(***************************************************************************)
EXTENDS Naturals, Sequences, FiniteSets, TLC

\* ------------------------------------------------------------------ values

\* Python's None as the value of a scalar field or argument.
None == "<None>"

\* No key path: AvbRebuilder.private_key = None, or no key selected.
NoKey == [dir |-> "", rel |-> ""]

\* parse_image_info returned None (line 41).
NoInfo == [parsed |-> FALSE]

VBMETA == "vbmeta.img"
VBMETA_NEW == "vbmeta_new.img"
KEY4096 == "tools/pem/testkey_rsa4096.pem"
KEY2048 == "tools/pem/testkey_rsa2048.pem"

\* auto_detect_private_key's candidates, in the order it probes them.
key_candidates == <<KEY4096, KEY2048>>

\* detect_partition_images' whitelist, in its order.
common_partitions == <<"boot", "init_boot">>

\* ------------------------------------------------------------------ bounds

\* Longest explicit --partitions list drawn.
MaxListed == 1

\* Most Prop descriptors an image carries.
MaxProps == 1

\* ------------------------------------------------------------ input domains

\* Values a --partitions entry is drawn from; one already carries ".img".
PartitionArgs == {"boot", "init_boot.img", "vendor_boot"}

\* Partition image files that may be present in the working directory.
PartitionFiles == {"boot.img", "init_boot.img", "vendor_boot.img"}

ImageFiles == PartitionFiles \cup {VBMETA, VBMETA_NEW}

\* Working directories: an ordinary one, and one whose own name holds "rsa2048".
WorkingDirs == {"/work", "/srv/rsa2048"}

\* An explicit --private-key (relative to the working directory).
CustomKey == "keys/custom.pem"

\* Signing algorithm names an image may report ("SHA256_RSA8192" is one
\* detect_required_key_type does not know).
SigningAlgorithms ==
  {"SHA256_RSA4096", "SHA512_RSA4096", "SHA256_RSA2048", "SHA512_RSA2048", "SHA256_RSA8192"}

\* --------------------------------------------------------- string functions

\* img_file of line 450 (and 566): the entry itself when it ends with ".img".
ImgFile(partition) ==
  CASE partition = "boot" -> "boot.img"
    [] partition = "init_boot" -> "init_boot.img"
    [] partition = "vendor_boot" -> "vendor_boot.img"
    [] OTHER -> partition

\* partition_name of line 452: img_file.replace('.img', '').
PartitionName(img_file) ==
  CASE img_file = "boot.img" -> "boot"
    [] img_file = "init_boot.img" -> "init_boot"
    [] img_file = "vendor_boot.img" -> "vendor_boot"
    [] OTHER -> img_file

\* str.upper() on the hash algorithm names (line 338).
Upper(s) ==
  CASE s = "sha256" -> "SHA256"
    [] s = "sha512" -> "SHA512"
    [] s = "sha1" -> "SHA1"
    [] OTHER -> s

\* salt == "0" * len(salt) (line 307).
AllZeroDigits(salt) == salt \in {"0", "00000000"}

\* Python's `needle in s` on the strings the model draws.
StrContains(s, needle) ==
  \/ s = KEY4096 /\ needle = "rsa4096"
  \/ s = KEY2048 /\ needle = "rsa2048"
  \/ s = "/srv/rsa2048" /\ needle = "rsa2048"

\* os.path.normpath(os.path.join(working_dir, rel)) (lines 157, 176).
AbsPath(working_dir, rel) == [dir |-> working_dir, rel |-> rel]

\* `needle in key_path` on an absolute path (line 209); no needle holds "/".
PathContains(key_path, needle) ==
  StrContains(key_path.dir, needle) \/ StrContains(key_path.rel, needle)

RECURSIVE SelectSeq2(_, _)
\* The subsequence of s whose elements are in the set keep, order kept.
SelectSeq2(s, keep) ==
  IF s = <<>> THEN <<>>
  ELSE IF Head(s) \in keep THEN <<Head(s)>> \o SelectSeq2(Tail(s), keep)
       ELSE SelectSeq2(Tail(s), keep)

\* Whether x occurs in the sequence s.
InSeq(x, s) == \E k \in DOMAIN s : s[k] = x

\* ------------------------------------------------------------- key selector

\* detect_required_key_type: the strength, or "exit" for sys.exit(1).
detect_required_key_type(algorithm) ==
  IF algorithm \in {"SHA256_RSA4096", "SHA512_RSA4096"} THEN "4096"
  ELSE IF algorithm \in {"SHA256_RSA2048", "SHA512_RSA2048"} THEN "2048"
  ELSE "exit"

\* get_key_for_algorithm: status "ok" with the key, or "exit" for sys.exit(1).
get_key_for_algorithm(algorithm, private_key, available_keys) ==
  LET required_type == detect_required_key_type(algorithm) IN
  IF required_type = "exit" THEN [status |-> "exit", key |-> NoKey]
  ELSE IF private_key # NoKey THEN [status |-> "ok", key |-> private_key]
  ELSE LET hits == {k \in DOMAIN available_keys :
                     PathContains(available_keys[k], "rsa" \o required_type)} IN
       IF hits = {} THEN [status |-> "exit", key |-> NoKey]
       ELSE [status |-> "ok",
             key |-> available_keys[CHOOSE k \in hits : \A j \in hits : k <= j]]

\* ------------------------------------------------------------ image metadata

\* The size avbtool reports for a partition image ("Image size: ... bytes").
SIZE == "67108864"

\* A salt secrets.token_hex(32) made (line 350): 64 hex characters.
GeneratedSalt == "<token_hex(32)>"

\* A descriptor record as _parse_hash_descriptor returns it (plus 'type').
HashDesc(partition_name, salt, hash_algorithm) ==
  [type |-> "hash", partition_name |-> partition_name, salt |-> salt,
   hash_algorithm |-> hash_algorithm, key |-> None, value |-> None]

\* A descriptor record as _parse_prop_descriptor returns it (plus 'type');
\* key = None stands for the empty dict of line 141.
PropDesc(key, value) ==
  [type |-> "prop", partition_name |-> None, salt |-> None,
   hash_algorithm |-> None, key |-> key, value |-> value]

\* The metadata an image carries, as info_image reports it; a field whose
\* line the report lacks is None.
Footer(algorithm, rollback_index, flags, image_size, descriptors) ==
  [algorithm |-> algorithm, rollback_index |-> rollback_index, flags |-> flags,
   image_size |-> image_size, descriptors |-> descriptors]

\* A file: absent, present without AVB metadata ("raw"), or with it ("avb").
AbsentFile == [state |-> "absent"]
RawFile == [state |-> "raw"]
AvbFile(meta) == [state |-> "avb", meta |-> meta]

\* Property descriptors drawn: one with a value, one with an empty value.
PropPool == {PropDesc("com.android.build.boot.os_version", "13"),
             PropDesc("com.android.build.boot.security_patch", "")}

\* Sequences of at most n elements of the set S.
RECURSIVE SeqsUpTo(_, _)
SeqsUpTo(S, n) ==
  IF n = 0 THEN {<<>>}
  ELSE LET shorter == SeqsUpTo(S, n - 1) IN
       shorter \cup {Append(s, x) : s \in shorter, x \in S}

\* Hash descriptors an image of `partition` may carry: none, one of another
\* partition, or its own with a salt or hash algorithm present or absent.
HashDescLists(partition) ==
  {<<>>, <<HashDesc("other", "deadbeef", "sha256")>>}
  \cup {<<HashDesc(partition, s, "sha256")>> : s \in {"deadbeef", "00000000", None}}
  \cup {<<HashDesc(partition, "deadbeef", h)>> : h \in {"sha512", "sha1", None}}

\* The usual descriptor list of a partition image.
UsualDescs(partition) == <<HashDesc(partition, "deadbeef", "sha256")>>

\* Footers drawn for a partition image: the usual footer under every
\* algorithm value, and for an unsigned and a signed image each single
\* deviation from it (no rollback index, no image size, other descriptors).
PartitionFooters(partition) ==
  LET algs == {None, "NONE"} \cup SigningAlgorithms
      two == {"NONE", "SHA256_RSA2048"}
  IN {Footer(a, "0", "0", SIZE, UsualDescs(partition)) : a \in algs}
     \cup {Footer(a, None, "0", SIZE, UsualDescs(partition)) : a \in two}
     \cup {Footer(a, "0", "0", None, UsualDescs(partition)) : a \in two}
     \cup {Footer(a, "0", "0", SIZE, h \o p) :
             a \in two, h \in HashDescLists(partition),
             p \in SeqsUpTo(PropPool, MaxProps)}

\* Footers drawn for vbmeta.img: signed, unsigned, and with a field absent.
VbmetaFooters ==
  {Footer(a, "0", "0", None, <<>>) : a \in {"SHA256_RSA4096", "SHA256_RSA2048", "NONE", None}}
  \cup {Footer("SHA256_RSA4096", None, "0", None, <<>>),
        Footer("SHA256_RSA4096", "0", None, None, <<>>)}

\* parse_image_info: None when the command failed or printed nothing, else
\* the fields its patterns extract from the report.
parse_image_info(file, tool_ok) ==
  IF ~tool_ok \/ file.state # "avb" THEN NoInfo
  ELSE [parsed |-> TRUE,
        algorithm |-> file.meta.algorithm,
        rollback_index |-> file.meta.rollback_index,
        flags |-> file.meta.flags,
        image_size |-> file.meta.image_size,
        descriptors |-> file.meta.descriptors]

\* ---------------------------------------------------------------- classifier

\* The mutant of is_chained that takes an absent algorithm for a signed one.
is_chained_absent(info) ==
  info.parsed /\ info.algorithm # "NONE"

\* Lines 469 and 245: the image carries its own signing algorithm.
is_chained(info) ==
  info.parsed /\ info.algorithm # None /\ info.algorithm # "NONE"

\* -------------------------------------------------------------------- state

VARIABLES
  args,               \* the parsed command line (argparse's Namespace)
  launch,             \* the directory main() starts in, until os.chdir
  images,             \* the working directory's image files
  initial_images,     \* the image files as they were when the run started
  keyfiles,           \* which of key_candidates exist in the working directory
  tool_present,       \* avbtool.py exists at avbtool_path
  pc,                 \* where the run is
  private_key,        \* AvbRebuilder.private_key
  available_keys,     \* AvbRebuilder.available_keys
  partition_images,   \* rebuild_all's partition_images (names, in dict order)
  chained_partitions, \* rebuild_all's chained_partitions
  regular_partitions, \* rebuild_all's regular_partitions
  next_index,         \* the position of the loop that is running
  frame,              \* rebuild_partition's / rebuild_vbmeta's locals
  success_count,      \* rebuild_all's success_count
  outcome,            \* how the process ended, "running" until it has
  printed,            \* report lines printed so far that the model follows
  last_cmd,           \* the command run_command was last asked to run
  issued,             \* <<subcommand, image>> pairs of every command issued
  succeeded           \* those among them whose subprocess succeeded

vars == <<args, launch, images, initial_images, keyfiles, tool_present, pc, private_key,
          available_keys, partition_images, chained_partitions,
          regular_partitions, next_index, frame, success_count, outcome,
          printed, last_cmd, issued, succeeded>>

\* No command yet / no call frame.
NoCmd == [op |-> "none"]
NoFrame == [fn |-> "none"]

\* ------------------------------------------------------------------- inputs

\* The command line of one run.
Args(partitions, working_dir, key, use_original_salt, chained_mode, verify_only) ==
  [partitions |-> partitions, working_dir |-> working_dir, private_key |-> key,
   regenerate_salt |-> ~use_original_salt, chained_mode |-> chained_mode,
   verify_only |-> verify_only]

\* The directory main() starts in: the working directory itself, or another
\* one (--working-dir names the working directory) holding these files.
LaunchInWorkingDir == [same |-> TRUE, files |-> {}]
LaunchElsewhere == [same |-> FALSE, files |-> {VBMETA, "boot.img"}]

\* The usual footers of an unsigned and of a signed partition image.
UsualRegular(partition) == Footer("NONE", "0", "0", SIZE, UsualDescs(partition))
UsualChained(partition) == Footer("SHA256_RSA2048", "0", "0", SIZE, UsualDescs(partition))

\* One working directory: the image files, from the states drawn for each.
Directory(boot, init_boot, vendor_boot, vbmeta, vbmeta_new) ==
  [f \in ImageFiles |->
     CASE f = "boot.img" -> boot
       [] f = "init_boot.img" -> init_boot
       [] f = "vendor_boot.img" -> vendor_boot
       [] f = VBMETA -> vbmeta
       [] OTHER -> vbmeta_new]

\* Explicit --partitions lists (the empty one: auto-detect).
PartitionLists == SeqsUpTo(PartitionArgs, MaxListed)

\* Inputs of the orchestration: every mode, partition images that are
\* absent, without metadata, unsigned or signed, and an umbrella container
\* that is absent, unsigned or signed.
CoreConfigs ==
  LET simple(p) == {AbsentFile, RawFile, AvbFile(UsualRegular(p)), AvbFile(UsualChained(p))}
      keysets == {<<"/work", None, {KEY4096, KEY2048}>>, <<"/work", None, {KEY4096}>>,
                  <<"/work", None, {}>>, <<"/work", CustomKey, {KEY4096, KEY2048}>>,
                  <<"/srv/rsa2048", None, {KEY4096, KEY2048}>>}
  IN { [args |-> Args(pl, k[1], k[2], TRUE, cm, FALSE), launch |-> l,
        images |-> Directory(b, ib, vb, vm, AbsentFile),
        keyfiles |-> k[3], tool_present |-> TRUE] :
         pl \in PartitionLists, k \in keysets, cm \in BOOLEAN,
         l \in {LaunchInWorkingDir, LaunchElsewhere},
         b \in simple("boot"), ib \in simple("init_boot"),
         vb \in {AbsentFile, AvbFile(UsualChained("vendor_boot"))},
         vm \in {AbsentFile, RawFile} \cup
                {AvbFile(Footer(a, "0", "0", None, <<>>)) : a \in {"SHA256_RSA4096", "NONE"}} }

\* Inputs of the key selector: every working directory, key set, explicit
\* key and algorithm, on one signed partition and on the umbrella container.
KeyConfigs ==
  { [args |-> Args(<<>>, wd, k, TRUE, cm, FALSE), launch |-> LaunchInWorkingDir,
     images |-> Directory(b, AvbFile(Footer(a, "0", "0", SIZE, UsualDescs("init_boot"))),
                          AbsentFile, AvbFile(Footer(va, "0", "0", None, <<>>)), AbsentFile),
     keyfiles |-> ks, tool_present |-> TRUE] :
       wd \in WorkingDirs, k \in {None, CustomKey}, cm \in BOOLEAN,
       ks \in SUBSET {KEY4096, KEY2048}, a \in SigningAlgorithms,
       b \in {AbsentFile, AvbFile(UsualRegular("boot"))},
       va \in {"SHA256_RSA4096", "SHA512_RSA2048", None} }

\* Inputs of the rebuild planner: one partition image with any footer drawn
\* for it, with and without salt reuse, and any umbrella container footer.
PlanConfigs ==
  { [args |-> Args(<<>>, "/work", None, us, cm, FALSE), launch |-> LaunchInWorkingDir,
     images |-> Directory(AvbFile(b), AbsentFile, AbsentFile, vm, vn),
     keyfiles |-> {KEY4096, KEY2048}, tool_present |-> TRUE] :
       us \in BOOLEAN, cm \in BOOLEAN, b \in PartitionFooters("boot"),
       vm \in {AvbFile(m) : m \in VbmetaFooters},
       vn \in {AbsentFile, RawFile} }

\* Other starts: verify-only runs and a missing avbtool.py.
OtherConfigs ==
  { [args |-> Args(<<>>, "/work", None, TRUE, cm, vo), launch |-> LaunchInWorkingDir,
     images |-> Directory(b, ib, AbsentFile, vm, AbsentFile),
     keyfiles |-> ks, tool_present |-> tp] :
       cm \in BOOLEAN, vo \in BOOLEAN, tp \in BOOLEAN,
       ks \in {{}, {KEY4096, KEY2048}},
       b \in {AbsentFile, AvbFile(UsualRegular("boot"))},
       ib \in {AbsentFile, AvbFile(UsualChained("init_boot"))},
       vm \in {AbsentFile, AvbFile(Footer("SHA256_RSA4096", "0", "0", None, <<>>))} }

Configs == CoreConfigs \cup KeyConfigs \cup PlanConfigs \cup OtherConfigs

Init ==
  /\ \E c \in Configs :
       /\ args = c.args
       /\ launch = c.launch
       /\ images = c.images
       /\ initial_images = c.images
       /\ keyfiles = c.keyfiles
       /\ tool_present = c.tool_present
  /\ pc = "main"
  /\ private_key = NoKey
  /\ available_keys = <<>>
  /\ partition_images = <<>>
  /\ chained_partitions = <<>>
  /\ regular_partitions = <<>>
  /\ next_index = 1
  /\ frame = NoFrame
  /\ success_count = 0
  /\ outcome = "running"
  /\ printed = {}
  /\ last_cmd = NoCmd
  /\ issued = {}
  /\ succeeded = {}

\* ------------------------------------------------------------ rebuild plans

\* The --prop arguments of the chained plan (lines 284-285 and 310-312).
chained_props(descriptors) ==
  LET usable(d) == d.type = "prop" /\ d.key \notin {None, ""} /\ d.value \notin {None, ""}
      RECURSIVE walk(_)
      walk(ds) == IF ds = <<>> THEN <<>>
                  ELSE IF usable(Head(ds))
                       THEN <<[key |-> Head(ds).key, value |-> Head(ds).value]>> \o walk(Tail(ds))
                       ELSE walk(Tail(ds))
  IN walk(descriptors)

\* The --prop arguments of the regular plan (lines 342-345 and 366-367).
regular_props(descriptors) ==
  LET text(x) == IF x = None THEN "" ELSE x
      RECURSIVE walk(_)
      walk(ds) == IF ds = <<>> THEN <<>>
                  ELSE IF Head(ds).type = "prop"
                       THEN <<[key |-> text(Head(ds).key), value |-> text(Head(ds).value)]>>
                            \o walk(Tail(ds))
                       ELSE walk(Tail(ds))
  IN walk(descriptors)

\* Positions of the Hash descriptors naming the partition (lines 282, 335).
matching_hash(descriptors, partition_name) ==
  {k \in DOMAIN descriptors :
     descriptors[k].type = "hash" /\ descriptors[k].partition_name = partition_name}

\* The largest element of a non-empty set of numbers.
Last(S) == CHOOSE k \in S : \A j \in S : j <= k

\* An add_hash_footer command; an option the command line lacks is None
\* (NoKey for --key).
AddHashFooter(image, partition_name, partition_size, algorithm, key, rollback_index, salt, props) ==
  [op |-> "add_hash_footer", image |-> image, partition_name |-> partition_name,
   partition_size |-> partition_size, algorithm |-> algorithm, key |-> key,
   rollback_index |-> rollback_index, salt |-> salt, props |-> props]

\* What a plan comes to: the command to run ("ok"), sys.exit(1) ("exit"),
\* or an exception nothing catches ("exception").
Planned(cmd) == [status |-> "ok", cmd |-> cmd]
PlanExit == [status |-> "exit", cmd |-> NoCmd]
PlanException == [status |-> "exception", cmd |-> NoCmd]

\* The mutant of chained_plan that never forwards a salt.
chained_plan_nosalt(partition_name, image_path, partition_size, algorithm, rollback_index, current_info, use_original_salt, pkey, keys) ==
  LET descs == current_info.descriptors
      suitable_key == get_key_for_algorithm(algorithm, pkey, keys)
  IN IF suitable_key.status = "exit" THEN PlanExit
     ELSE IF rollback_index = None THEN PlanException
     ELSE Planned(AddHashFooter(image_path, partition_name, partition_size, algorithm,
                                suitable_key.key, rollback_index, None,
                                chained_props(descs)))

\* The mutant of chained_plan that forwards an all-zero salt too.
chained_plan_zero_salt(partition_name, image_path, partition_size, algorithm, rollback_index, current_info, use_original_salt, pkey, keys) ==
  LET descs == current_info.descriptors
      hits == matching_hash(descs, partition_name)
      salt == IF hits # {} /\ use_original_salt THEN descs[Last(hits)].salt ELSE None
      suitable_key == get_key_for_algorithm(algorithm, pkey, keys)
  IN IF suitable_key.status = "exit" THEN PlanExit
     ELSE IF rollback_index = None THEN PlanException
     ELSE Planned(AddHashFooter(image_path, partition_name, partition_size, algorithm,
                                suitable_key.key, rollback_index, salt,
                                chained_props(descs)))

\* _rebuild_chained_partition up to the command it hands to run_command;
\* run_command's ' '.join(cmd) raises TypeError on a None rollback index.
chained_plan(partition_name, image_path, partition_size, algorithm, rollback_index, current_info, use_original_salt, pkey, keys) ==
  LET descs == current_info.descriptors
      hits == matching_hash(descs, partition_name)
      salt == IF hits # {} /\ use_original_salt THEN descs[Last(hits)].salt ELSE None
      suitable_key == get_key_for_algorithm(algorithm, pkey, keys)
      passed == IF salt # None /\ ~AllZeroDigits(salt) THEN salt ELSE None
  IN IF suitable_key.status = "exit" THEN PlanExit
     ELSE IF rollback_index = None THEN PlanException
     ELSE Planned(AddHashFooter(image_path, partition_name, partition_size, algorithm,
                                suitable_key.key, rollback_index, passed,
                                chained_props(descs)))

\* _rebuild_hash_partition up to the command it hands to run_command;
\* None.upper() (line 338) and None[:16] (line 341) raise.
regular_plan(partition_name, image_path, partition_size, current_info, use_original_salt) ==
  LET descs == current_info.descriptors
      hits == IF use_original_salt THEN matching_hash(descs, partition_name) ELSE {}
      raises == \E k \in hits : descs[k].hash_algorithm = None \/ descs[k].salt = None
      read == IF hits = {} THEN "NONE" ELSE Upper(descs[Last(hits)].hash_algorithm)
      algorithm == IF read = "SHA256" THEN "NONE" ELSE read
      salt == IF hits = {} THEN GeneratedSalt ELSE descs[Last(hits)].salt
  IN IF raises THEN PlanException
     ELSE Planned(AddHashFooter(image_path, partition_name, partition_size, algorithm,
                                NoKey, None, salt, regular_props(descs)))

\* ------------------------------------------------------------ external tool

\* os.path.exists in the working directory.
Exists(f) == images[f].state # "absent"

\* os.path.exists before os.chdir: in the directory main() starts in.
LaunchExists(f) == IF launch.same THEN Exists(f) ELSE f \in launch.files

\* Whether the subprocess of a command on `image` can end with status 0:
\* avbtool.py must be there, info_image and erase_footer need an image that
\* carries metadata, add_hash_footer an image file.
CanSucceed(op, image) ==
  /\ tool_present
  /\ op \in {"info_image", "erase_footer"} => images[image].state = "avb"
  /\ op = "add_hash_footer" => Exists(image)

\* The results run_command may return for a command: True for a result
\* object, False for None.
Results(op, image) == IF CanSucceed(op, image) THEN BOOLEAN ELSE {FALSE}

\* run_command was asked to run `cmd` and the subprocess ended ok or not.
Ran(cmd, ok) ==
  /\ last_cmd' = cmd
  /\ issued' = issued \cup {<<cmd.op, cmd.image>>}
  /\ succeeded' = IF ok THEN succeeded \cup {<<cmd.op, cmd.image>>} ELSE succeeded

NoCommand == UNCHANGED <<last_cmd, issued, succeeded>>

InfoImage(image) == [op |-> "info_image", image |-> image]
EraseFooter(image) == [op |-> "erase_footer", image |-> image]

\* The footer a successful add_hash_footer leaves on the image.
WrittenFooter(cmd) ==
  Footer(cmd.algorithm,
         IF cmd.rollback_index = None THEN "0" ELSE cmd.rollback_index,
         "0", cmd.partition_size,
         <<HashDesc(cmd.partition_name,
                    IF cmd.salt = None THEN GeneratedSalt ELSE cmd.salt, "sha256")>>
         \o [k \in DOMAIN cmd.props |-> PropDesc(cmd.props[k].key, cmd.props[k].value)])

\* ------------------------------------------------------------------ endings

ExitStatus == IF outcome = "True" THEN 0 ELSE 1

\* The process ends: main() returned True or False, sys.exit(1) was called,
\* or an exception reached the top level.
Ends(how) == pc' = "exit" /\ outcome' = how

Running == outcome' = outcome

\* --------------------------------------------------------------------- main

\* has_partition_images of lines 563-574.
has_partition_images ==
  IF args.partitions # <<>>
  THEN \E k \in DOMAIN args.partitions : LaunchExists(ImgFile(args.partitions[k]))
  ELSE \E f \in ImageFiles \ {VBMETA} : LaunchExists(f)

\* missing_files of lines 550-577.
missing_files ==
  (IF tool_present THEN {} ELSE {"avbtool.py"})
  \cup (IF ~args.chained_mode /\ ~args.verify_only /\ ~LaunchExists(VBMETA)
        THEN {VBMETA} ELSE {})
  \cup (IF ~args.verify_only /\ ~has_partition_images
        THEN {"partition image files"} ELSE {})

\* main() up to the construction of the AvbRebuilder (lines 545-583).
Main ==
  /\ pc = "main"
  /\ IF missing_files # {} /\ ~args.verify_only
     THEN Ends("False")
     ELSE pc' = "construct" /\ Running
  /\ NoCommand
  /\ UNCHANGED <<args, initial_images, launch, images, keyfiles, tool_present, private_key,
                 available_keys, partition_images, chained_partitions,
                 regular_partitions, next_index, frame, success_count, printed>>

\* auto_detect_private_key without its sys.exit: the candidates that exist.
auto_detect_private_key(working_dir) ==
  LET found == SelectSeq2(key_candidates, keyfiles)
  IN [k \in DOMAIN found |-> AbsPath(working_dir, found[k])]

\* AvbRebuilder.__init__ (lines 146-164), then main's dispatch (587-591).
Construct ==
  /\ pc = "construct"
  /\ launch' = LaunchInWorkingDir
  /\ IF args.private_key # None
     THEN /\ private_key' = AbsPath(args.working_dir, args.private_key)
          /\ available_keys' = <<AbsPath(args.working_dir, args.private_key)>>
          /\ pc' = IF args.verify_only THEN "verify" ELSE "discover"
          /\ Running
     ELSE /\ private_key' = NoKey
          /\ available_keys' = auto_detect_private_key(args.working_dir)
          /\ IF auto_detect_private_key(args.working_dir) = <<>>
             THEN Ends("sys.exit(1)")
             ELSE pc' = (IF args.verify_only THEN "verify" ELSE "discover") /\ Running
  /\ NoCommand
  /\ UNCHANGED <<args, initial_images, images, keyfiles, tool_present, partition_images,
                 chained_partitions, regular_partitions, next_index, frame,
                 success_count, printed>>

\* -------------------------------------------------------------- rebuild_all

RECURSIVE Distinct(_)
\* The keys of a dict filled from the sequence s, in insertion order.
Distinct(s) ==
  IF s = <<>> THEN <<>>
  ELSE LET front == Distinct(SubSeq(s, 1, Len(s) - 1)) IN
       IF InSeq(s[Len(s)], front) THEN front ELSE Append(front, s[Len(s)])

\* detect_partition_images (lines 221-232): partition names, whitelist order.
detect_partition_images ==
  SelectSeq2(common_partitions, {p \in {"boot", "init_boot"} : Exists(ImgFile(p))})

\* partition_images of lines 447-458, as partition names in dict order.
discovered ==
  IF args.partitions # <<>>
  THEN LET named == [k \in DOMAIN args.partitions |->
                       PartitionName(ImgFile(args.partitions[k]))]
       IN Distinct(SelectSeq2(named, {n \in {named[k] : k \in DOMAIN named} :
                                        Exists(ImgFile(n))}))
  ELSE detect_partition_images

\* rebuild_all, lines 438-462: the partition set, or failure without one.
Discover ==
  /\ pc = "discover"
  /\ partition_images' = discovered
  /\ IF discovered = <<>> THEN Ends("False") ELSE pc' = "classify" /\ Running
  /\ next_index' = 1
  /\ NoCommand
  /\ UNCHANGED <<args, initial_images, launch, images, keyfiles, tool_present, private_key,
                 available_keys, chained_partitions, regular_partitions, frame,
                 success_count, printed>>

\* One pass of the loop of lines 467-474: parse an image and bucket it.
Classify ==
  /\ pc = "classify"
  /\ next_index <= Len(partition_images)
  /\ LET partition_name == partition_images[next_index]
         image_path == ImgFile(partition_name)
     IN \E ok \in Results("info_image", image_path) :
          LET current_info == parse_image_info(images[image_path], ok) IN
          /\ Ran(InfoImage(image_path), ok)
          /\ IF is_chained(current_info)
             THEN /\ chained_partitions' = Append(chained_partitions, partition_name)
                  /\ UNCHANGED regular_partitions
             ELSE /\ regular_partitions' = Append(regular_partitions, partition_name)
                  /\ UNCHANGED chained_partitions
  /\ next_index' = next_index + 1
  /\ UNCHANGED <<args, initial_images, launch, images, keyfiles, tool_present, pc, private_key,
                 available_keys, partition_images, frame, success_count, outcome,
                 printed>>

\* The mutant of ModeGate that leaves out the check of lines 487-492.
ModeGate_unchecked ==
  /\ pc = "classify"
  /\ next_index > Len(partition_images)
  /\ IF args.chained_mode
     THEN /\ partition_images' = chained_partitions
          /\ regular_partitions' = <<>>
          /\ IF chained_partitions = <<>>
             THEN Ends("False")
             ELSE pc' = "chained" /\ Running
     ELSE /\ UNCHANGED <<partition_images, regular_partitions>>
          /\ pc' = "chained" /\ Running
  /\ next_index' = 1
  /\ NoCommand
  /\ UNCHANGED <<args, initial_images, launch, images, keyfiles, tool_present, private_key,
                 available_keys, chained_partitions, frame, success_count, printed>>

\* Lines 476-494: what the mode asks of the buckets.
ModeGate ==
  /\ pc = "classify"
  /\ next_index > Len(partition_images)
  /\ IF args.chained_mode
     THEN /\ partition_images' = chained_partitions
          /\ regular_partitions' = <<>>
          /\ IF chained_partitions = <<>>
             THEN Ends("False")
             ELSE pc' = "chained" /\ Running
     ELSE /\ UNCHANGED <<partition_images, regular_partitions>>
          /\ IF regular_partitions # <<>> /\ ~Exists(VBMETA)
             THEN Ends("False")
             ELSE pc' = "chained" /\ Running
  /\ next_index' = 1
  /\ NoCommand
  /\ UNCHANGED <<args, initial_images, launch, images, keyfiles, tool_present, private_key,
                 available_keys, chained_partitions, frame, success_count, printed>>

\* The list the running loop goes through (lines 495, 504).
loop_list == IF pc = "chained" THEN chained_partitions ELSE regular_partitions

\* The mutant of RebuildPartitionParse that goes on without erase_footer.
RebuildPartitionParse_noerase ==
  /\ pc \in {"chained", "regular"}
  /\ next_index <= Len(loop_list)
  /\ LET partition_name == loop_list[next_index]
         image_path == ImgFile(partition_name)
     IN \E ok \in Results("info_image", image_path) :
          LET current_info == parse_image_info(images[image_path], ok) IN
          /\ Ran(InfoImage(image_path), ok)
          /\ IF current_info.parsed /\ current_info.image_size # None
             THEN /\ frame' = [fn |-> "rebuild_partition", caller |-> pc,
                               partition_name |-> partition_name,
                               image_path |-> image_path,
                               current_info |-> current_info,
                               is_chained_partition |-> is_chained(current_info),
                               partition_size |-> current_info.image_size]
                  /\ pc' = "add"
                  /\ UNCHANGED next_index
             ELSE /\ frame' = NoFrame
                  /\ next_index' = next_index + 1
                  /\ UNCHANGED pc
  /\ UNCHANGED <<args, initial_images, launch, images, keyfiles, tool_present, private_key,
                 available_keys, partition_images, chained_partitions,
                 regular_partitions, success_count, outcome, printed>>

\* The mutant of RebuildPartitionParse that goes on without an image size.
RebuildPartitionParse_nosize ==
  /\ pc \in {"chained", "regular"}
  /\ next_index <= Len(loop_list)
  /\ LET partition_name == loop_list[next_index]
         image_path == ImgFile(partition_name)
     IN \E ok \in Results("info_image", image_path) :
          LET current_info == parse_image_info(images[image_path], ok) IN
          /\ Ran(InfoImage(image_path), ok)
          /\ IF current_info.parsed
             THEN /\ frame' = [fn |-> "rebuild_partition", caller |-> pc,
                               partition_name |-> partition_name,
                               image_path |-> image_path,
                               current_info |-> current_info,
                               is_chained_partition |-> is_chained(current_info),
                               partition_size |-> current_info.image_size]
                  /\ pc' = "erase"
                  /\ UNCHANGED next_index
             ELSE /\ frame' = NoFrame
                  /\ next_index' = next_index + 1
                  /\ UNCHANGED pc
  /\ UNCHANGED <<args, initial_images, launch, images, keyfiles, tool_present, private_key,
                 available_keys, partition_images, chained_partitions,
                 regular_partitions, success_count, outcome, printed>>

\* rebuild_partition, lines 234-257: parse, detect the kind, get the size;
\* without a size it returns False to the loop.
RebuildPartitionParse ==
  /\ pc \in {"chained", "regular"}
  /\ next_index <= Len(loop_list)
  /\ LET partition_name == loop_list[next_index]
         image_path == ImgFile(partition_name)
     IN \E ok \in Results("info_image", image_path) :
          LET current_info == parse_image_info(images[image_path], ok) IN
          /\ Ran(InfoImage(image_path), ok)
          /\ IF current_info.parsed /\ current_info.image_size # None
             THEN /\ frame' = [fn |-> "rebuild_partition", caller |-> pc,
                               partition_name |-> partition_name,
                               image_path |-> image_path,
                               current_info |-> current_info,
                               is_chained_partition |-> is_chained(current_info),
                               partition_size |-> current_info.image_size]
                  /\ pc' = "erase"
                  /\ UNCHANGED next_index
             ELSE /\ frame' = NoFrame
                  /\ next_index' = next_index + 1
                  /\ UNCHANGED pc
  /\ UNCHANGED <<args, initial_images, launch, images, keyfiles, tool_present, private_key,
                 available_keys, partition_images, chained_partitions,
                 regular_partitions, success_count, outcome, printed>>

\* rebuild_partition, lines 259-261 and 267-268: erase_footer, result unread.
ErasePartitionFooter ==
  /\ pc = "erase"
  /\ \E ok \in Results("erase_footer", frame.image_path) :
       /\ Ran(EraseFooter(frame.image_path), ok)
       /\ images' = IF ok THEN [images EXCEPT ![frame.image_path] = RawFile] ELSE images
  /\ pc' = "add"
  /\ UNCHANGED <<args, initial_images, launch, keyfiles, tool_present, private_key, available_keys,
                 partition_images, chained_partitions, regular_partitions,
                 next_index, frame, success_count, outcome, printed>>

\* The plan rebuild_partition goes on with (lines 259-271).
plan_of(f) ==
  IF f.is_chained_partition
  THEN chained_plan(f.partition_name, f.image_path, f.partition_size,
                    f.current_info.algorithm, f.current_info.rollback_index,
                    f.current_info, ~args.regenerate_salt, private_key, available_keys)
  ELSE regular_plan(f.partition_name, f.image_path, f.partition_size,
                    f.current_info, ~args.regenerate_salt)

\* The mutant of AddPartitionFooter in which a failed rebuild ends the run.
AddPartitionFooter_abort ==
  /\ pc = "add"
  /\ LET plan == plan_of(frame) IN
     IF plan.status # "ok"
     THEN /\ Ends(IF plan.status = "exit" THEN "sys.exit(1)" ELSE "exception")
          /\ NoCommand
          /\ UNCHANGED <<images, next_index, frame, success_count>>
     ELSE \E ok \in Results("add_hash_footer", frame.image_path) :
            /\ Ran(plan.cmd, ok)
            /\ images' = IF ok
                         THEN [images EXCEPT ![frame.image_path] = AvbFile(WrittenFooter(plan.cmd))]
                         ELSE images
            /\ success_count' = IF ok THEN success_count + 1 ELSE success_count
            /\ next_index' = next_index + 1
            /\ frame' = NoFrame
            /\ IF ok THEN pc' = frame.caller /\ Running ELSE Ends("False")
  /\ UNCHANGED <<args, initial_images, launch, keyfiles, tool_present, private_key, available_keys,
                 partition_images, chained_partitions, regular_partitions, printed>>

\* _rebuild_chained_partition / _rebuild_hash_partition: plan, run
\* add_hash_footer, return its success to the loop (lines 496-497, 505-506).
AddPartitionFooter ==
  /\ pc = "add"
  /\ LET plan == plan_of(frame) IN
     IF plan.status # "ok"
     THEN /\ Ends(IF plan.status = "exit" THEN "sys.exit(1)" ELSE "exception")
          /\ NoCommand
          /\ UNCHANGED <<images, next_index, frame, success_count>>
     ELSE \E ok \in Results("add_hash_footer", frame.image_path) :
            /\ Ran(plan.cmd, ok)
            /\ images' = IF ok
                         THEN [images EXCEPT ![frame.image_path] = AvbFile(WrittenFooter(plan.cmd))]
                         ELSE images
            /\ success_count' = IF ok THEN success_count + 1 ELSE success_count
            /\ pc' = frame.caller
            /\ next_index' = next_index + 1
            /\ frame' = NoFrame
            /\ Running
  /\ UNCHANGED <<args, initial_images, launch, keyfiles, tool_present, private_key, available_keys,
                 partition_images, chained_partitions, regular_partitions, printed>>

\* The chained loop is over (line 499): with regular partitions outside
\* chained mode, parse vbmeta.img (line 502) and start on them.
StartRegular ==
  /\ pc = "chained"
  /\ next_index > Len(chained_partitions)
  /\ IF regular_partitions # <<>> /\ ~args.chained_mode
     THEN /\ \E ok \in Results("info_image", VBMETA) : Ran(InfoImage(VBMETA), ok)
          /\ pc' = "regular"
     ELSE /\ NoCommand
          /\ pc' = "tally"
  /\ next_index' = 1
  /\ UNCHANGED <<args, initial_images, launch, images, keyfiles, tool_present, private_key,
                 available_keys, partition_images, chained_partitions,
                 regular_partitions, frame, success_count, outcome, printed>>

WARN_VBMETA == "[WARNING] vbmeta rebuild failed, but chained partitions may have been successfully rebuilt"
ERR_NONE_REBUILT == "[ERROR] No partitions were successfully rebuilt"
VBMETA_GENERATED == "vbmeta.img generated successfully"
REBUILDING_VBMETA == "=== Rebuilding vbmeta image ==="
VBMETA_REBUILT == "[SUCCESS] vbmeta.img rebuilt successfully"

\* rebuild_vbmeta, lines 378-390, called once the regular loop is over
\* (lines 508-510): parse vbmeta.img and select the key for its algorithm.
RebuildVbmetaParse ==
  /\ pc = "regular"
  /\ next_index > Len(regular_partitions)
  /\ \E ok \in Results("info_image", VBMETA) :
       LET vbmeta_info == parse_image_info(images[VBMETA], ok)
           suitable_key == get_key_for_algorithm(vbmeta_info.algorithm, private_key,
                                                 available_keys)
       IN /\ Ran(InfoImage(VBMETA), ok)
          /\ IF ~vbmeta_info.parsed
             THEN /\ printed' = printed \cup {REBUILDING_VBMETA, WARN_VBMETA}
                  /\ pc' = "tally"
                  /\ Running
                  /\ UNCHANGED frame
             ELSE IF suitable_key.status = "exit"
             THEN /\ Ends("sys.exit(1)")
                  /\ printed' = printed \cup {REBUILDING_VBMETA}
                  /\ UNCHANGED frame
             ELSE /\ frame' = [fn |-> "rebuild_vbmeta", vbmeta_info |-> vbmeta_info,
                               suitable_key |-> suitable_key.key]
                  /\ pc' = "make_vbmeta"
                  /\ Running
                  /\ printed' = printed \cup {REBUILDING_VBMETA}
  /\ UNCHANGED <<args, initial_images, launch, images, keyfiles, tool_present, private_key,
                 available_keys, partition_images, chained_partitions,
                 regular_partitions, next_index, success_count>>

\* The images rebuild_vbmeta includes descriptors from (lines 407-411).
included_images ==
  <<VBMETA>> \o SelectSeq2([k \in DOMAIN regular_partitions |-> ImgFile(regular_partitions[k])],
                           {f \in PartitionFiles : Exists(f)})

\* The make_vbmeta_image command of lines 394-411.
MakeVbmetaImage(vbmeta_info, suitable_key, includes) ==
  [op |-> "make_vbmeta_image", image |-> VBMETA_NEW, algorithm |-> vbmeta_info.algorithm,
   key |-> suitable_key, rollback_index |-> vbmeta_info.rollback_index,
   flags |-> vbmeta_info.flags, includes |-> includes]

RECURSIVE Flatten(_)
\* The concatenation of a sequence of sequences.
Flatten(ss) == IF ss = <<>> THEN <<>> ELSE Head(ss) \o Flatten(Tail(ss))

\* The container a successful make_vbmeta_image writes: the command's
\* algorithm, rollback index and flags and the included images' descriptors.
WrittenVbmeta(cmd) ==
  Footer(cmd.algorithm, cmd.rollback_index, cmd.flags, None,
         Flatten([k \in DOMAIN cmd.includes |-> images[cmd.includes[k]].meta.descriptors]))

\* How make_vbmeta_image may end: "failed", or status 0 with the output
\* written ("written") or not ("nothing"); it can write only when every
\* included image carries metadata.
MakeResults(cmd) ==
  IF tool_present /\ \A k \in DOMAIN cmd.includes : images[cmd.includes[k]].state = "avb"
  THEN {"failed", "nothing", "written"}
  ELSE {"failed"}

\* The mutant of MakeVbmeta in which rebuild_all returns False after the
\* warning of line 511.
MakeVbmeta_fatal ==
  /\ pc = "make_vbmeta"
  /\ LET cmd == MakeVbmetaImage(frame.vbmeta_info, frame.suitable_key, included_images) IN
     IF cmd.rollback_index = None \/ cmd.flags = None
     THEN /\ Ends("exception")
          /\ NoCommand
          /\ UNCHANGED <<images, frame, printed>>
     ELSE \E res \in MakeResults(cmd) :
            LET after == IF res = "written"
                         THEN [images EXCEPT ![VBMETA_NEW] = AvbFile(WrittenVbmeta(cmd))]
                         ELSE images
                moved == res # "failed" /\ after[VBMETA_NEW].state # "absent"
            IN /\ Ran(cmd, res # "failed")
               /\ images' = IF moved
                            THEN [after EXCEPT ![VBMETA] = after[VBMETA_NEW],
                                               ![VBMETA_NEW] = AbsentFile]
                            ELSE after
               /\ printed' = printed \cup {IF moved THEN VBMETA_REBUILT ELSE WARN_VBMETA}
               /\ frame' = NoFrame
               /\ IF moved THEN pc' = "tally" /\ Running ELSE Ends("False")
  /\ UNCHANGED <<args, initial_images, launch, keyfiles, tool_present, private_key, available_keys,
                 partition_images, chained_partitions, regular_partitions,
                 next_index, success_count>>

\* rebuild_vbmeta, lines 392-421: run make_vbmeta_image and move its output
\* over vbmeta.img; ' '.join(cmd) raises on a None rollback index or flags.
MakeVbmeta ==
  /\ pc = "make_vbmeta"
  /\ LET cmd == MakeVbmetaImage(frame.vbmeta_info, frame.suitable_key, included_images) IN
     IF cmd.rollback_index = None \/ cmd.flags = None
     THEN /\ Ends("exception")
          /\ NoCommand
          /\ UNCHANGED <<images, frame, printed>>
     ELSE \E res \in MakeResults(cmd) :
            LET after == IF res = "written"
                         THEN [images EXCEPT ![VBMETA_NEW] = AvbFile(WrittenVbmeta(cmd))]
                         ELSE images
                moved == res # "failed" /\ after[VBMETA_NEW].state # "absent"
            IN /\ Ran(cmd, res # "failed")
               /\ images' = IF moved
                            THEN [after EXCEPT ![VBMETA] = after[VBMETA_NEW],
                                               ![VBMETA_NEW] = AbsentFile]
                            ELSE after
               /\ printed' = printed \cup {IF moved THEN VBMETA_REBUILT ELSE WARN_VBMETA}
               /\ frame' = NoFrame
               /\ pc' = "tally"
               /\ Running
  /\ UNCHANGED <<args, initial_images, launch, keyfiles, tool_present, private_key, available_keys,
                 partition_images, chained_partitions, regular_partitions,
                 next_index, success_count>>

\* The mutant of Tally that goes on to verify_result whatever the count.
Tally_lenient ==
  /\ pc = "tally"
  /\ pc' = "verify" /\ Running /\ UNCHANGED printed
  /\ NoCommand
  /\ UNCHANGED <<args, initial_images, launch, images, keyfiles, tool_present, private_key,
                 available_keys, partition_images, chained_partitions,
                 regular_partitions, next_index, frame, success_count>>

\* Lines 513-517: no success is failure, else on to verify_result.
Tally ==
  /\ pc = "tally"
  /\ IF success_count = 0
     THEN Ends("False") /\ printed' = printed \cup {ERR_NONE_REBUILT}
     ELSE pc' = "verify" /\ Running /\ UNCHANGED printed
  /\ NoCommand
  /\ UNCHANGED <<args, initial_images, launch, images, keyfiles, tool_present, private_key,
                 available_keys, partition_images, chained_partitions,
                 regular_partitions, next_index, frame, success_count>>

\* verify_result, lines 423-433: report vbmeta.img if it exists, then detect
\* the partition images to report.
VerifyVbmeta ==
  /\ pc = "verify"
  /\ IF Exists(VBMETA)
     THEN \E ok \in Results("info_image", VBMETA) : Ran(InfoImage(VBMETA), ok)
     ELSE NoCommand
  /\ frame' = [fn |-> "verify_result", partition_images |-> detect_partition_images]
  /\ next_index' = 1
  /\ pc' = "verify_partitions"
  /\ UNCHANGED <<args, initial_images, launch, images, keyfiles, tool_present, private_key,
                 available_keys, partition_images, chained_partitions,
                 regular_partitions, success_count, outcome, printed>>

\* verify_result, lines 434-436: report one partition image.
VerifyPartition ==
  /\ pc = "verify_partitions"
  /\ next_index <= Len(frame.partition_images)
  /\ LET image_path == ImgFile(frame.partition_images[next_index]) IN
     \E ok \in Results("info_image", image_path) : Ran(InfoImage(image_path), ok)
  /\ next_index' = next_index + 1
  /\ UNCHANGED <<args, initial_images, launch, images, keyfiles, tool_present, pc, private_key,
                 available_keys, partition_images, chained_partitions,
                 regular_partitions, frame, success_count, outcome, printed>>

\* The end of a run that got through verify_result: main's verify-only
\* return (line 589), or rebuild_all's report and return (lines 519-525).
Finish ==
  /\ pc = "verify_partitions"
  /\ next_index > Len(frame.partition_images)
  /\ printed' = IF ~args.verify_only /\ ~args.chained_mode /\ regular_partitions # <<>>
                THEN printed \cup {VBMETA_GENERATED}
                ELSE printed
  /\ Ends("True")
  /\ frame' = NoFrame
  /\ NoCommand
  /\ UNCHANGED <<args, initial_images, launch, images, keyfiles, tool_present, private_key,
                 available_keys, partition_images, chained_partitions,
                 regular_partitions, next_index, success_count>>

Next ==
  \/ Main
  \/ Construct
  \/ Discover
  \/ Classify
  \/ ModeGate
  \/ RebuildPartitionParse
  \/ ErasePartitionFooter
  \/ AddPartitionFooter
  \/ StartRegular
  \/ RebuildVbmetaParse
  \/ MakeVbmeta
  \/ Tally
  \/ VerifyVbmeta
  \/ VerifyPartition
  \/ Finish

Spec == Init /\ [][Next]_vars

\* ------------------------------------------------- the descriptor parser

\* Most descriptor blocks a report drawn for the parser holds.
MaxBlocks == 2

\* The labels re.split looks for (line 68) and the tag each gets (lines 74-89).
DescriptorLabels ==
  {"Hash descriptor", "Hashtree descriptor", "Chain Partition descriptor", "Prop"}

DescriptorType(label) ==
  CASE label = "Hash descriptor" -> "hash"
    [] label = "Hashtree descriptor" -> "hashtree"
    [] label = "Chain Partition descriptor" -> "chain"
    [] OTHER -> "prop"

\* One line of a report, "<label>: <value>"; a line that introduces a Prop
\* carries the property's text as its value.
Line(label, value) == [label |-> label, value |-> value]

\* A line the report lacks.
NoLine == Line("", "")

\* The lines of a block, the lacking ones left out.
Present(lines) == SelectSeq(lines, LAMBDA l : l # NoLine)

\* re.search(pattern, text) for a pattern that starts with the literal
\* `label`: it matches wherever that text occurs, also at the end of a
\* longer label.
LabelMatches(label, line_label) ==
  \/ line_label = label
  \/ label = "Digest" /\ line_label = "Root Digest"
  \/ label = "Algorithm" /\ line_label = "Hash Algorithm"

\* The longest run of [a-fA-F0-9] a text starts with (None: it starts with none).
HexPrefix(text) ==
  CASE text \in {"deadbeef", "00000000", "cafe", "0", "1"} -> text
    [] text = "1000 bytes" -> "1000"
    [] text = "boot" -> "b"
    [] text = "Digest:" -> "D"
    [] text = "Flags:" -> "F"
    [] OTHER -> None

\* The longest run of \S a text starts with.
WordPrefix(text) ==
  CASE text = "" -> None
    [] text = "1000 bytes" -> "1000"
    [] text = "Image Size:" -> "Image"
    [] text = "Hash Algorithm:" -> "Hash"
    [] text = "Partition Name:" -> "Partition"
    [] text = "Root Digest:" -> "Root"
    [] text = "Rollback Index Location:" -> "Rollback"
    [] text = "Public key (sha1):" -> "Public"
    [] OTHER -> text

\* The longest run of \d a text starts with.
DigitsPrefix(text) ==
  CASE text \in {"0", "1"} -> text
    [] text = "1000 bytes" -> "1000"
    [] text = "00000000" -> text
    [] OTHER -> None

\* The group a pattern "<label>:\s+(<class>+)" captures at one text.
Capture(class, text) ==
  CASE class = "hex" -> HexPrefix(text)
    [] class = "word" -> WordPrefix(text)
    [] OTHER -> DigitsPrefix(text)

RECURSIVE extract_pattern(_, _, _)
\* _extract_pattern(content, r'<label>:\s+(<class>+)'): the first place of
\* the content where the pattern matches.  \s+ runs over the end of a line
\* whose value is empty, and the class is then matched at the start of the
\* next line of the content.
extract_pattern(content, label, class) ==
  IF content = <<>> THEN None
  ELSE LET line == Head(content)
           rest == Tail(content)
           group == IF ~LabelMatches(label, line.label) THEN None
                    ELSE IF line.value # "" THEN Capture(class, line.value)
                    ELSE IF rest = <<>> THEN None
                    ELSE Capture(class, Head(rest).label \o ":")
       IN IF group # None THEN group ELSE extract_pattern(rest, label, class)

\* _parse_hash_descriptor (lines 94-103).
parse_hash_descriptor(content) ==
  [image_size |-> extract_pattern(content, "Image Size", "digits"),
   hash_algorithm |-> extract_pattern(content, "Hash Algorithm", "word"),
   partition_name |-> extract_pattern(content, "Partition Name", "word"),
   salt |-> extract_pattern(content, "Salt", "hex"),
   digest |-> extract_pattern(content, "Digest", "hex"),
   flags |-> extract_pattern(content, "Flags", "digits")]

\* _parse_hashtree_descriptor (lines 106-119), the fields the model draws.
parse_hashtree_descriptor(content) ==
  [image_size |-> extract_pattern(content, "Image Size", "digits"),
   hash_algorithm |-> extract_pattern(content, "Hash Algorithm", "word"),
   partition_name |-> extract_pattern(content, "Partition Name", "word"),
   salt |-> extract_pattern(content, "Salt", "hex"),
   root_digest |-> extract_pattern(content, "Root Digest", "hex"),
   flags |-> extract_pattern(content, "Flags", "digits")]

\* _parse_chain_descriptor (lines 122-129).
parse_chain_descriptor(content) ==
  [partition_name |-> extract_pattern(content, "Partition Name", "word"),
   rollback_index_location |-> extract_pattern(content, "Rollback Index Location", "digits"),
   public_key_sha1 |-> extract_pattern(content, "Public key (sha1)", "hex"),
   flags |-> extract_pattern(content, "Flags", "digits")]

\* The texts a Prop line is drawn from, as the signer prints a property: the
\* value in single quotes, in double quotes when it holds an apostrophe, or
\* as a byte count when it is long.
PropTexts ==
  {"os_version -> '13'", "security_patch -> ''", "fingerprint -> \"it's\"",
   "blob -> (300 bytes)"}

\* The key and the value of the property a Prop text prints.
PropKey(text) ==
  CASE text = "os_version -> '13'" -> "os_version"
    [] text = "security_patch -> ''" -> "security_patch"
    [] text = "fingerprint -> \"it's\"" -> "fingerprint"
    [] OTHER -> "blob"

PropValue(text) ==
  CASE text = "os_version -> '13'" -> "13"
    [] text = "security_patch -> ''" -> ""
    [] text = "fingerprint -> \"it's\"" -> "it's"
    [] OTHER -> "<300 bytes>"

\* _parse_prop_descriptor (lines 132-141): (\S+)\s+->\s+'([^']*)' matches a
\* text whose value is in single quotes; the record of no match is empty.
parse_prop_descriptor(text) ==
  IF text \in {"os_version -> '13'", "security_patch -> ''"}
  THEN [key |-> PropKey(text), value |-> PropValue(text)]
  ELSE [none |-> TRUE]

RECURSIVE block_content(_)
\* The lines from the start of `lines` up to the next descriptor label.
block_content(lines) ==
  IF lines = <<>> \/ Head(lines).label \in DescriptorLabels THEN <<>>
  ELSE <<Head(lines)>> \o block_content(Tail(lines))

RECURSIVE parse_descriptors(_)
\* _parse_descriptors (lines 64-91): one record per label found, in the
\* order of the report, from the text between that label and the next.
parse_descriptors(output) ==
  IF output = <<>> THEN <<>>
  ELSE LET line == Head(output)
           content == block_content(Tail(output))
           fields == CASE line.label = "Hash descriptor" -> parse_hash_descriptor(content)
                       [] line.label = "Hashtree descriptor" -> parse_hashtree_descriptor(content)
                       [] line.label = "Chain Partition descriptor" -> parse_chain_descriptor(content)
                       [] OTHER -> parse_prop_descriptor(line.value)
       IN IF line.label \in DescriptorLabels
          THEN <<[type |-> DescriptorType(line.label), fields |-> fields]>>
               \o parse_descriptors(Tail(output))
          ELSE parse_descriptors(Tail(output))

\* A block of a report: the label that introduces it and its own lines.
Block(label, text, lines) == [label |-> label, text |-> text, lines |-> Present(lines)]

\* The ways a line is drawn: with its usual value or not at all; a salt
\* line also with an empty value (an image hashed with an empty salt).
Optional(label, usual) == {Line(label, usual), NoLine}

SaltLines == {Line("Salt", "deadbeef"), Line("Salt", ""), NoLine}

\* Hash descriptor blocks: the lines in the signer's order, with the salt,
\* or the hash algorithm and the flags, drawn.
HashBlocks ==
  {Block("Hash descriptor", "",
         <<Line("Image Size", "1000 bytes"), Line("Hash Algorithm", "sha256"),
           Line("Partition Name", "boot"), s, Line("Digest", "cafe"),
           Line("Flags", "0")>>) : s \in SaltLines}
  \cup {Block("Hash descriptor", "",
              <<Line("Image Size", "1000 bytes"), a, Line("Partition Name", "boot"),
                Line("Salt", "00000000"), Line("Digest", "cafe"), f>>) :
          a \in Optional("Hash Algorithm", "sha256"), f \in Optional("Flags", "0")}

HashtreeBlocks ==
  {Block("Hashtree descriptor", "",
         <<Line("Image Size", "1000 bytes"), Line("Hash Algorithm", "sha1"),
           Line("Partition Name", "system"), s, Line("Root Digest", "cafe"),
           Line("Flags", "0")>>) : s \in SaltLines}

ChainBlocks ==
  {Block("Chain Partition descriptor", "",
         <<Line("Partition Name", "vbmeta_system"), Line("Rollback Index Location", "1"),
           k, Line("Flags", "0")>>) : k \in Optional("Public key (sha1)", "cafe")}

PropBlocks == {Block("Prop", text, <<>>) : text \in PropTexts}

Blocks == HashBlocks \cup HashtreeBlocks \cup ChainBlocks \cup PropBlocks

\* What a report has before its descriptors.
ReportHead ==
  <<Line("Image size", "67108864 bytes"), Line("Algorithm", "NONE"),
    Line("Rollback Index", "0"), Line("Flags", "0"), Line("Descriptors", "")>>

RECURSIVE ReportText(_)
\* The lines of the descriptor blocks of a report.
ReportText(blocks) ==
  IF blocks = <<>> THEN <<>>
  ELSE <<Line(Head(blocks).label, Head(blocks).text)>> \o Head(blocks).lines
       \o ReportText(Tail(blocks))

\* The parser on its own: a report is drawn and _parse_descriptors is
\* applied to it.
ParserInit ==
  /\ \E blocks \in SeqsUpTo(Blocks, MaxBlocks) :
       frame = [fn |-> "_parse_descriptors", blocks |-> blocks,
                output |-> ReportHead \o ReportText(blocks), descriptors |-> <<>>]
  /\ pc = "report"
  /\ args = Args(<<>>, "/work", None, TRUE, FALSE, TRUE)
  /\ launch = LaunchInWorkingDir
  /\ images = Directory(AbsentFile, AbsentFile, AbsentFile, AbsentFile, AbsentFile)
  /\ initial_images = images
  /\ keyfiles = {}
  /\ tool_present = TRUE
  /\ private_key = NoKey
  /\ available_keys = <<>>
  /\ partition_images = <<>>
  /\ chained_partitions = <<>>
  /\ regular_partitions = <<>>
  /\ next_index = 1
  /\ success_count = 0
  /\ outcome = "running"
  /\ printed = {}
  /\ last_cmd = NoCmd
  /\ issued = {}
  /\ succeeded = {}

ParseReport ==
  /\ pc = "report"
  /\ pc' = "parsed"
  /\ frame' = [frame EXCEPT !.descriptors = parse_descriptors(frame.output)]
  /\ UNCHANGED <<args, launch, images, initial_images, keyfiles, tool_present,
                 private_key, available_keys, partition_images, chained_partitions,
                 regular_partitions, next_index, success_count, outcome, printed,
                 last_cmd, issued, succeeded>>

ParserNext == ParseReport

ParserSpec == ParserInit /\ [][ParserNext]_vars

\* ------------------------------------------------------------------- claims

\* Subcommands that change an image file.
Mutating == {"erase_footer", "add_hash_footer", "make_vbmeta_image"}

\* Subcommands that rewrite a partition image's footer.
FooterOps == {"erase_footer", "add_hash_footer"}

MAKE_VBMETA == <<"make_vbmeta_image", VBMETA_NEW>>

\* rebuild_vbmeta has been entered.
UmbrellaEntered == REBUILDING_VBMETA \in printed

\* C1: in normal mode, once a partition has classified as Regular while
\* vbmeta.img does not exist, the run can only finish classifying and fail:
\* no erase_footer, add_hash_footer or make_vbmeta_image is ever issued and
\* every image file is as it was when the run started.
C1_FailFast ==
  (~args.verify_only /\ ~args.chained_mode /\ regular_partitions # <<>> /\ ~Exists(VBMETA))
    => /\ \A c \in issued : c[1] \notin Mutating
       /\ images = initial_images
       /\ pc \in {"classify", "exit"}
       /\ pc = "exit" => (outcome = "False" /\ ExitStatus = 1)

\* C1's case: the run failed at the check of lines 487-492.
C1_Witness ==
  /\ pc = "exit" /\ outcome = "False"
  /\ ~args.verify_only /\ ~args.chained_mode
  /\ regular_partitions # <<>> /\ ~Exists(VBMETA)

\* C2 as claimed: make_vbmeta_image has been issued only if add_hash_footer
\* has succeeded for every regular partition.
C2_Original ==
  MAKE_VBMETA \in issued
    => \A k \in DOMAIN regular_partitions :
         <<"add_hash_footer", ImgFile(regular_partitions[k])>> \in succeeded

\* C3 as claimed: a run that rebuilt a partition and whose umbrella rebuild
\* did not replace vbmeta.img (an uncaught exception apart) ends with the
\* warning and with success.
C3_Original ==
  (pc = "exit" /\ success_count >= 1 /\ UmbrellaEntered
     /\ VBMETA_REBUILT \notin printed /\ outcome # "exception")
    => (outcome = "True" /\ WARN_VBMETA \in printed)

\* C3 as amended: rebuild_vbmeta returns with exactly one of the warning and
\* the replacement of vbmeta.img; a run that printed the warning after a
\* partition was rebuilt ends with success; and the process exits inside
\* rebuild_vbmeta, without the warning, exactly on a vbmeta.img whose
\* algorithm the key selector has no key for.
C3_WarnThenSuccess ==
  /\ (pc = "tally" /\ UmbrellaEntered)
       => ((WARN_VBMETA \in printed) # (VBMETA_REBUILT \in printed))
  /\ (pc = "exit" /\ success_count >= 1 /\ WARN_VBMETA \in printed)
       => (outcome = "True" /\ ExitStatus = 0)
  /\ (pc = "exit" /\ UmbrellaEntered /\ outcome = "sys.exit(1)")
       => /\ images[VBMETA].state = "avb"
          /\ get_key_for_algorithm(images[VBMETA].meta.algorithm, private_key,
                                   available_keys).status = "exit"
          /\ WARN_VBMETA \notin printed
  /\ (UmbrellaEntered /\ images[VBMETA].state = "avb"
        /\ VBMETA_REBUILT \notin printed /\ WARN_VBMETA \notin printed
        /\ get_key_for_algorithm(images[VBMETA].meta.algorithm, private_key,
                                 available_keys).status = "exit")
       => (pc = "exit" /\ outcome = "sys.exit(1)")

\* C3's case: the signer failed on make_vbmeta_image after a partition was
\* rebuilt, and the run ended with success.
C3_Witness ==
  /\ pc = "exit" /\ outcome = "True" /\ success_count >= 1
  /\ WARN_VBMETA \in printed
  /\ MAKE_VBMETA \in issued /\ MAKE_VBMETA \notin succeeded

\* A step in which rebuild_partition returns False: no size from the parse,
\* or add_hash_footer failed.
RebuildFailed ==
  \/ pc \in {"chained", "regular"} /\ next_index <= Len(loop_list) /\ pc' # "erase"
  \/ /\ pc = "add" /\ plan_of(frame).status = "ok"
     /\ <<"add_hash_footer", frame.image_path>> \notin succeeded'

\* C4: a partition whose parse or whose add_hash_footer fails adds nothing
\* to the success count, and the loop it is in goes on to the next
\* partition: the run does not end there.
C4_FailureContinues ==
  [][RebuildFailed =>
       /\ success_count' = success_count
       /\ outcome' = "running"
       /\ pc' = (IF pc = "add" THEN frame.caller ELSE pc)
       /\ next_index' = next_index + 1]_vars

\* C4's case: the only chained partition failed and a regular one is being
\* rebuilt.
C4_Witness ==
  /\ pc = "erase" /\ frame.caller = "regular"
  /\ Len(chained_partitions) = 1 /\ success_count = 0
  /\ <<"erase_footer", ImgFile(chained_partitions[1])>> \in issued

\* Partition images add_hash_footer succeeded on / erase_footer was issued for.
RebuiltImages == {f \in PartitionFiles : <<"add_hash_footer", f>> \in succeeded}
ErasedImages == {f \in PartitionFiles : <<"erase_footer", f>> \in issued}

\* C5: the success count is the number of partitions add_hash_footer
\* succeeded on, at most the number of partitions processed; a rebuild run
\* ends with success only with a count of at least one, and with a count of
\* zero it never enters verify_result and ends with a non-zero status.
C5_SuccessNeedsRebuild ==
  /\ success_count = Cardinality(RebuiltImages)
  /\ success_count <= Cardinality(ErasedImages)
  /\ success_count <= Len(chained_partitions) + Len(regular_partitions)
  /\ ~args.verify_only =>
       /\ outcome = "True" => success_count >= 1
       /\ success_count = 0 => pc \notin {"verify", "verify_partitions"}
       /\ (pc = "exit" /\ success_count = 0) => ExitStatus = 1

\* C5's case: partitions were processed, none succeeded, the run failed.
C5_Witness ==
  /\ pc = "exit" /\ outcome = "False" /\ ERR_NONE_REBUILT \in printed
  /\ ErasedImages # {} /\ success_count = 0

\* A step that issues a footer command on a partition image.
IssuesFooterOp == last_cmd' # last_cmd /\ last_cmd'.op \in FooterOps

\* C6: add_hash_footer on an image directly follows erase_footer on that
\* image, and no footer command is issued for a partition of the chained
\* bucket once one was issued for a partition of the regular bucket.
C6_EraseThenAdd ==
  [][IssuesFooterOp =>
       /\ last_cmd'.op = "add_hash_footer" => last_cmd = EraseFooter(last_cmd'.image)
       /\ InSeq(PartitionName(last_cmd'.image), chained_partitions)
            => \A c \in issued :
                 c[1] \in FooterOps => ~InSeq(PartitionName(c[2]), regular_partitions)]_vars

\* C6's case: a regular partition's footer is added after a chained one's.
C6_Witness ==
  /\ last_cmd.op = "add_hash_footer"
  /\ InSeq(PartitionName(last_cmd.image), regular_partitions)
  /\ \E k \in DOMAIN chained_partitions :
       <<"add_hash_footer", ImgFile(chained_partitions[k])>> \in issued

\* C7 as claimed: in chained mode no make_vbmeta_image is issued, vbmeta.img
\* stays as it was, footer commands go only to partitions of the chained
\* bucket; and with init_boot.img signed SHA256_RSA2048 as the only
\* partition, no vbmeta.img and no explicit key, the footer is erased and
\* re-added with that algorithm and the rsa2048 key, for a count of 1.
C7_Original ==
  args.chained_mode =>
    /\ MAKE_VBMETA \notin issued
    /\ images[VBMETA] = initial_images[VBMETA]
    /\ \A c \in issued :
         c[1] \in FooterOps => InSeq(PartitionName(c[2]), chained_partitions)
    /\ (/\ partition_images = <<"init_boot">>
        /\ initial_images["init_boot.img"] = AvbFile(UsualChained("init_boot"))
        /\ ~Exists(VBMETA) /\ args.private_key = None
        /\ last_cmd.op = "add_hash_footer")
         => /\ last_cmd.algorithm = "SHA256_RSA2048"
            /\ last_cmd.key = AbsPath(args.working_dir, KEY2048)
            /\ <<"erase_footer", "init_boot.img">> \in issued
            /\ <<"add_hash_footer", "init_boot.img">> \in succeeded => success_count = 1

\* C8: while the partitions are classified, a partition whose metadata was
\* parsed is in the regular bucket if its algorithm is absent or "NONE" and
\* in the chained bucket otherwise; rebuild_partition decides the same way.
C8_Classifier ==
  /\ pc = "classify" =>
       \A k \in 1..(next_index - 1) :
         LET name == partition_images[k]
             file == images[ImgFile(name)]
         IN <<"info_image", ImgFile(name)>> \in succeeded
              => /\ InSeq(name, regular_partitions) <=> file.meta.algorithm \in {None, "NONE"}
                 /\ InSeq(name, chained_partitions) <=> file.meta.algorithm \notin {None, "NONE"}
  /\ pc = "erase" =>
       (frame.is_chained_partition <=> frame.current_info.algorithm \notin {None, "NONE"})

\* C8's case: an image whose report has no algorithm was classified.
C8_Witness ==
  /\ pc = "classify" /\ regular_partitions # <<>>
  /\ images[ImgFile(regular_partitions[1])].state = "avb"
  /\ images[ImgFile(regular_partitions[1])].meta.algorithm = None
  /\ <<"info_image", ImgFile(regular_partitions[1])>> \in succeeded

\* The candidate key file of the strength an algorithm requires.
RequiredKeyFile(algorithm) ==
  IF detect_required_key_type(algorithm) = "4096" THEN KEY4096 ELSE KEY2048

\* C9 as claimed: without an explicit key, a command that carries a key
\* carries the existing key file of the strength its algorithm requires.
C9_Original ==
  (private_key = NoKey /\ last_cmd.op \in {"add_hash_footer", "make_vbmeta_image"}
     /\ last_cmd.key # NoKey)
    => /\ detect_required_key_type(last_cmd.algorithm) # "exit"
       /\ RequiredKeyFile(last_cmd.algorithm) \in keyfiles
       /\ last_cmd.key = AbsPath(args.working_dir, RequiredKeyFile(last_cmd.algorithm))

\* C10 as claimed: with an explicit key the selector returns it for every
\* algorithm it is asked about, so key selection never ends the process.
C10_Original == private_key # NoKey => outcome # "sys.exit(1)"

\* The Hash descriptors of the image being rebuilt that name its partition.
OwnHashDescs ==
  {frame.current_info.descriptors[k] :
     k \in matching_hash(frame.current_info.descriptors, frame.partition_name)}

\* A step of the chained plan / of the regular plan that runs add_hash_footer.
ChainedAdds ==
  pc = "add" /\ frame.is_chained_partition /\ last_cmd'.op = "add_hash_footer"
RegularAdds ==
  pc = "add" /\ ~frame.is_chained_partition /\ last_cmd'.op = "add_hash_footer"

\* C11: the add_hash_footer of the chained plan carries the salt of the Hash
\* descriptor naming the partition when salt reuse is on, that descriptor
\* exists and its salt is present and not all zero digits; in every other
\* case it carries no salt, and never one the plan made up.
C11_ChainedSalt ==
  [][ChainedAdds =>
       /\ (~args.regenerate_salt /\ OwnHashDescs # {}
             /\ \A d \in OwnHashDescs : d.salt \notin {None, "0", "00000000"})
            => \E d \in OwnHashDescs : last_cmd'.salt = d.salt
       /\ (args.regenerate_salt \/ OwnHashDescs = {}
             \/ \A d \in OwnHashDescs : d.salt \in {None, "0", "00000000"})
            => last_cmd'.salt = None
       /\ last_cmd'.salt # GeneratedSalt]_vars

\* C11's case: a chained image whose own Hash descriptor has the salt
\* "00000000" got its footer added, with salt reuse on, without a salt.
C11_Witness ==
  /\ last_cmd.op = "add_hash_footer" /\ last_cmd.key # NoKey
  /\ ~args.regenerate_salt /\ last_cmd.salt = None
  /\ \E k \in DOMAIN initial_images[last_cmd.image].meta.descriptors :
       LET d == initial_images[last_cmd.image].meta.descriptors[k]
       IN d.type = "hash" /\ d.partition_name = last_cmd.partition_name
            /\ d.salt = "00000000"

\* C12 as claimed: the regular plan of an image whose own Hash descriptors
\* all report a hash algorithm runs add_hash_footer, with the salt of its
\* own Hash descriptor when salt reuse is on and that salt is present
\* (all-zero included), and in every other case with a generated salt.
C12_Original ==
  [][(pc = "add" /\ ~frame.is_chained_partition
        /\ \A d \in OwnHashDescs : d.hash_algorithm # None)
       => /\ last_cmd'.op = "add_hash_footer"
          /\ IF ~args.regenerate_salt /\ \E d \in OwnHashDescs : d.salt # None
             THEN \E d \in OwnHashDescs : last_cmd'.salt = d.salt
             ELSE last_cmd'.salt = GeneratedSalt]_vars

\* C13 as claimed: the add_hash_footer of the regular plan carries
\* --algorithm NONE and no --key, whatever the image's Hash descriptor says.
C13_Original ==
  [][RegularAdds => (last_cmd'.algorithm = "NONE" /\ last_cmd'.key = NoKey)]_vars

\* C14 as claimed: no run ends with an exception that nothing catches.
C14_Original == outcome # "exception"

\* An image file whose metadata report can give no size: it carries no
\* metadata, or its report has no "Image size" line.
Unsizable(f) ==
  \/ initial_images[f].state = "raw"
  \/ initial_images[f].state = "avb" /\ initial_images[f].meta.image_size = None

\* The partitions in the buckets whose image can give a size.
SizablePartitions ==
  {f \in PartitionFiles :
     /\ ~Unsizable(f)
     /\ InSeq(PartitionName(f), chained_partitions \o regular_partitions)}

\* C15: an image that gives no size never gets erase_footer or
\* add_hash_footer, stays as it was and adds nothing to the success count;
\* rebuild_partition goes on to erase_footer only with a parsed size, and a
\* call that does not runs info_image alone, changes no image file, leaves
\* the count and moves the loop to the next partition.
C15_NoSizeNoMutation ==
  [][/\ \A f \in PartitionFiles :
          Unsizable(f) => /\ <<"erase_footer", f>> \notin issued'
                          /\ <<"add_hash_footer", f>> \notin issued'
                          /\ images'[f] = initial_images[f]
     /\ success_count' <= Cardinality(SizablePartitions')
     /\ (pc \in {"chained", "regular"} /\ next_index <= Len(loop_list))
          => LET image_path == ImgFile(loop_list[next_index]) IN
             IF pc' = "erase"
             THEN /\ <<"info_image", image_path>> \in succeeded'
                  /\ images[image_path].state = "avb"
                  /\ images[image_path].meta.image_size # None
             ELSE /\ last_cmd' = InfoImage(image_path)
                  /\ issued' \subseteq issued \cup {<<"info_image", image_path>>}
                  /\ images' = images
                  /\ success_count' = success_count
                  /\ pc' = pc /\ next_index' = next_index + 1]_vars

\* C15's case: a run that skipped a regular partition whose image carries no
\* metadata and still ended with success.
C15_Witness ==
  /\ pc = "exit" /\ outcome = "True" /\ ~args.verify_only
  /\ \E f \in PartitionFiles :
       Unsizable(f) /\ InSeq(PartitionName(f), regular_partitions)

\* C16 as claimed: in a rebuild run, verify_result reports every partition
\* of the run's partition set.
C16_Original ==
  (pc = "verify_partitions" /\ ~args.verify_only)
    => \A k \in DOMAIN partition_images :
         InSeq(partition_images[k], frame.partition_images)

\* The value a line of a block states for the field `label` (the text
\* before " bytes" for a size), None when the block has no such line or the
\* line has no value.
Stated(block, label) ==
  LET own == SelectSeq(block.lines, LAMBDA l : l.label = label /\ l.value # "")
  IN IF own = <<>> THEN None
     ELSE IF Head(own).value = "1000 bytes" THEN "1000" ELSE Head(own).value

\* The label of the line each field of a record is read from.
FieldLabel(field) ==
  CASE field = "image_size" -> "Image Size"
    [] field = "hash_algorithm" -> "Hash Algorithm"
    [] field = "partition_name" -> "Partition Name"
    [] field = "salt" -> "Salt"
    [] field = "digest" -> "Digest"
    [] field = "root_digest" -> "Root Digest"
    [] field = "rollback_index_location" -> "Rollback Index Location"
    [] field = "public_key_sha1" -> "Public key (sha1)"
    [] OTHER -> "Flags"

\* The parser returned one record per block, in order, tagged by the label.
CountOrderTags ==
  /\ Len(frame.descriptors) = Len(frame.blocks)
  /\ \A k \in DOMAIN frame.blocks :
       frame.descriptors[k].type = DescriptorType(frame.blocks[k].label)

\* C17 as claimed: the parser returns one record per descriptor block, in
\* report order, tagged by the block's label, and each record carries the
\* value its block states for every field and nothing for a field the block
\* does not state.
C17_Original ==
  pc = "parsed" =>
    /\ CountOrderTags
    /\ \A k \in DOMAIN frame.blocks :
         LET block == frame.blocks[k]
             fields == frame.descriptors[k].fields
         IN IF block.label = "Prop"
            THEN /\ DOMAIN fields = {"key", "value"}
                 /\ fields.key = PropKey(block.text)
                 /\ fields.value = PropValue(block.text)
            ELSE \A f \in DOMAIN fields : fields[f] = Stated(block, FieldLabel(f))

\* The plan a second run (same command line, same keys) derives for an
\* image file as the first run left it: rebuild_partition on the metadata
\* the file now carries.
second_plan(f) ==
  LET info == parse_image_info(images[f], TRUE) IN
  plan_of([fn |-> "rebuild_partition", caller |-> "chained",
           partition_name |-> PartitionName(f), image_path |-> f,
           current_info |-> info, is_chained_partition |-> is_chained(info),
           partition_size |-> info.image_size])

\* The second run's salt would be a new one: the chained plan forwards none
\* (the signer makes one), the regular plan makes one itself.
FreshSalt(f) ==
  IF is_chained(parse_image_info(images[f], TRUE))
  THEN second_plan(f).cmd.salt = None
  ELSE \/ args.regenerate_salt
       \/ matching_hash(images[f].meta.descriptors, PartitionName(f)) = {}

\* The second run rebuilds f with the parameters of the footer f carries:
\* its plan comes to a command, the salt is not a new one, and the footer
\* that command writes is the footer the first run wrote.
SameParameters(f) ==
  /\ second_plan(f).status = "ok"
  /\ ~FreshSalt(f)
  /\ WrittenFooter(second_plan(f).cmd) = images[f].meta

\* Images the first run rebuilt with an algorithm the signer knows (a
\* footer algorithm such as "SHA1" is C13's case).
RebuiltBySigner ==
  {f \in RebuiltImages : images[f].meta.algorithm \in {"NONE"} \cup SigningAlgorithms}

\* C18 as claimed: a second run derives, for every partition the first run
\* rebuilt, the parameters of the footer the first run wrote.
C18_Original == \A f \in RebuiltBySigner : SameParameters(f)

\* C18 as amended: with salt reuse on, a second run derives, for every
\* partition the first run rebuilt, the salt, algorithm, rollback index and
\* properties of the footer the first run wrote (so the signer, hashing the
\* same payload with the same salt, writes the same digest).
C18_Idempotent ==
  ~args.regenerate_salt => \A f \in RebuiltBySigner : SameParameters(f)

\* C18's case: a run with salt reuse on rebuilt a chained and a regular
\* partition and ended with success.
C18_Witness ==
  /\ pc = "exit" /\ outcome = "True" /\ ~args.regenerate_salt
  /\ \E f, g \in RebuiltBySigner :
       images[f].meta.algorithm = "NONE" /\ images[g].meta.algorithm # "NONE"

\* C19 as claimed: add_hash_footer has been issued for an image only if
\* erase_footer succeeded on it.
C19_Original ==
  \A f \in PartitionFiles :
    <<"add_hash_footer", f>> \in issued => <<"erase_footer", f>> \in succeeded

\* C20 as claimed: vbmeta.img differs from what it was only if
\* make_vbmeta_image succeeded, and then it is the file that command
\* produced, not a vbmeta_new.img that was there before the run.
C20_Original ==
  images[VBMETA] # initial_images[VBMETA]
    => /\ MAKE_VBMETA \in succeeded
       /\ images[VBMETA] # initial_images[VBMETA_NEW]

\* The Prop descriptors of a descriptor list, in descriptor order.
PropDescs(descriptors) == SelectSeq(descriptors, LAMBDA d : d.type = "prop")

\* A --prop list holds exactly one key:value argument per Prop descriptor of
\* the list, in descriptor order.
OnePerProp(props, descriptors) ==
  /\ Len(props) = Len(PropDescs(descriptors))
  /\ \A k \in DOMAIN props :
       /\ props[k].key = PropDescs(descriptors)[k].key
       /\ props[k].value = PropDescs(descriptors)[k].value

\* C21 as claimed: the add_hash_footer of either plan forwards one --prop
\* key:value argument per Prop descriptor of the image, in descriptor order,
\* a property with an empty value included; so on the same descriptors both
\* plans forward the same list.
C21_Original ==
  [][(pc = "add" /\ last_cmd'.op = "add_hash_footer")
       => /\ OnePerProp(last_cmd'.props, frame.current_info.descriptors)
          /\ chained_props(frame.current_info.descriptors)
               = regular_props(frame.current_info.descriptors)]_vars

\* C22 as claimed: the add_hash_footer for a partition of the regular bucket
\* is the regular plan's (no --key, an algorithm that is not a signing
\* algorithm) and the one for a partition of the chained bucket is the
\* chained plan's (a --key and the image's signing algorithm), whatever the
\* parse at the start of rebuild_partition returned.
C22_Original ==
  [][(pc = "add" /\ last_cmd'.op = "add_hash_footer")
       => LET name == PartitionName(last_cmd'.image) IN
          /\ InSeq(name, regular_partitions)
               => /\ ~frame.is_chained_partition
                  /\ last_cmd'.key = NoKey
                  /\ last_cmd'.algorithm \notin SigningAlgorithms
          /\ InSeq(name, chained_partitions)
               => /\ frame.is_chained_partition
                  /\ last_cmd'.key # NoKey
                  /\ last_cmd'.algorithm \in SigningAlgorithms]_vars

\* C23 as claimed: when the key selection of the chained plan ends the
\* process, erase_footer was not issued for the partition being rebuilt and
\* its image still carries the footer it had.
C23_Original ==
  (pc = "exit" /\ outcome = "sys.exit(1)" /\ frame.fn = "rebuild_partition")
    => /\ <<"erase_footer", frame.image_path>> \notin issued
       /\ images[frame.image_path] = initial_images[frame.image_path]

\* C24 as claimed: "vbmeta.img generated successfully" has been printed only
\* in a run whose rebuild_vbmeta succeeded: make_vbmeta_image returned
\* success, vbmeta.img was replaced, and the warning of a failed umbrella
\* rebuild was not printed.
C24_Original ==
  VBMETA_GENERATED \in printed
    => /\ MAKE_VBMETA \in succeeded
       /\ VBMETA_REBUILT \in printed
       /\ WARN_VBMETA \notin printed

====
